---- MODULE Spec2Model ----
(***************************************************************************)
(* A model of examples/random_miqp/run_example.py: the function `solve`    *)
(* that sweeps over problem sizes, generates random MIQP instances from    *)
(* the process-wide numpy random source, hands each instance to one of two *)
(* solver backends and reduces the elapsed times of every size to          *)
(* min / max / mean.                                                       *)
(*                                                                         *)
(* Times are floating-point numbers.  A float is <<m, e>> with value       *)
(* m * 2^e and a significand m of MantissaBits bits, every operation       *)
(* rounding its exact result to nearest, ties to even, as IEEE-754 does.   *)
(* numpy's float64 has 53 significand bits; the model keeps the rounding   *)
(* rule and scales the width down.                                         *)
(***************************************************************************)
EXTENDS Integers, Sequences, FiniteSets, TLC

\* ------------------------------------------------------------------ bounds

\* Width of a float's significand (53 in float64).
MantissaBits == 3
\* Longest sweep (len(n_vec)) explored.
MaxL == 2
\* Largest repetition count (repeat) explored.
MaxRepeat == 3

\* ------------------------------------------------------- float arithmetic

RECURSIVE Pow2(_)
Pow2(k) == IF k <= 0 THEN 1 ELSE 2 * Pow2(k - 1)

Zero == <<0, 0>>
\* The value np.mean leaves for an empty array.
NaN  == <<-1, 0>>

\* num/den * 2^e (num >= 0, den > 0) rounded to the nearest float, ties to even.
RECURSIVE RoundRat(_, _, _)
RoundRat(num, den, e) ==
    IF num = 0 THEN Zero
    ELSE IF num >= den * Pow2(MantissaBits) THEN RoundRat(num, 2 * den, e + 1)
    ELSE IF num < den * Pow2(MantissaBits - 1) THEN RoundRat(2 * num, den, e - 1)
    ELSE LET q == num \div den
             r == num % den
             m == IF 2 * r > den \/ (2 * r = den /\ q % 2 = 1) THEN q + 1 ELSE q
         IN  IF m = Pow2(MantissaBits) THEN <<Pow2(MantissaBits - 1), e + 1>>
             ELSE <<m, e>>

MinExp(a, b) == IF a[2] <= b[2] THEN a[2] ELSE b[2]
\* The significand of a at the exponent e0 <= a[2]: an integer.
At(a, e0) == a[1] * Pow2(a[2] - e0)

\* a <= b
FLeq(a, b) ==
    IF a = NaN \/ b = NaN THEN FALSE
    ELSE At(a, MinExp(a, b)) <= At(b, MinExp(a, b))

\* a + b
FAdd(a, b) ==
    IF a = NaN \/ b = NaN THEN NaN
    ELSE RoundRat(At(a, MinExp(a, b)) + At(b, MinExp(a, b)), 1, MinExp(a, b))

\* a / b for a float b > 0
FDiv(a, b) == IF a = NaN THEN NaN ELSE RoundRat(a[1], b[1], a[2] - b[2])

\* a / k for an integer k > 0
FDivInt(a, k) == IF a = NaN THEN NaN ELSE RoundRat(a[1], k, a[2])

\* k * a for an integer k > 0 (k is exact in float64: 1e3, 100)
FMulInt(k, a) == IF a = NaN THEN NaN ELSE RoundRat(k * a[1], 1, a[2])


\* ----------------------------------------------------------------- inputs

\* (n, m, p) points a sweep is made of; the last one asks for more restricted
\* variables than there are variables.
Dims == { <<1, 0, 1>>, <<2, 1, 1>>, <<1, 1, 2>> }
Sweeps == UNION { [1..l -> Dims] : l \in 0..MaxL }
Seeds == {1}
\* dns_level, in tenths
Densities == {6}
Solvers == {"gurobi", "miosqp", "cplex"}
\* The module global n_prob is bound by the script's main block only.
Undefined == -1
\* States of the process-wide random source when solve is entered: whatever
\* ran earlier in the process left it there.
EarlierRng == { [seed |-> 0, pos |-> 3], [seed |-> 9, pos |-> 0] }

\* Solver times in seconds, and the time miosqp spent inside OSQP: positive,
\* and the second no longer than the first.
CpuTimes == << RoundRat(3, 256, 0), RoundRat(7, 512, 0) >>
OsqpTimes == << RoundRat(1, 256, 0), RoundRat(1, 128, 0) >>

NoInst == [src |-> [seed |-> -1, pos |-> -1], n |-> 0, m |-> 0, idx |-> 0, dns |-> 0]
NoRes == [status |-> "none", time |-> Zero, osqp |-> Zero]

\* ------------------------------------------------------------------ state

VARIABLES
    n_vec, m_vec, p_vec, repeat, dns_level, seed, solver,  \* solve's arguments
    n_prob,            \* the module global read by the configuration loop
    rng,               \* numpy's global random source
    clock,             \* "wall": times vary from run to run; "replay": a
                       \* backend whose result is a function of the instance
    pc, err,           \* where solve is, and the exception it ended with
    i, j,              \* loop indices (Python's, from 0; -1 before the loop)
    solve_time_temp, osqp_solve_time_temp,
    min_solve_time, max_solve_time, avg_solve_time,
    min_osqp_solve_time, max_osqp_solve_time, avg_osqp_solve_time,
    inst, res,         \* the instance and the backend result of this repetition
    timings,           \* the returned data frame
    log                \* what solve has done so far, in order

args == <<n_vec, m_vec, p_vec, repeat, dns_level, seed, solver, n_prob, clock>>
temps == <<solve_time_temp, osqp_solve_time_temp>>
stats == <<min_solve_time, max_solve_time, avg_solve_time,
           min_osqp_solve_time, max_osqp_solve_time, avg_osqp_solve_time>>
vars == <<args, rng, pc, err, i, j, temps, stats, inst, res, timings, log>>

L == Len(n_vec)
\* Python's v[k], k from 0
Idx(v, k) == v[k + 1]
Zeros(k) == [x \in 1..k |-> Zero]

\* An entry of the log: what was done, for which (i, j), and what it produced.
Ev(e, ii, jj, v) == [ev |-> e, i |-> ii, j |-> jj, val |-> v]

\* ------------------------------------------------------------- generation

\* Mutant of SeedRng: the call leaves the source as it was.
SeedRngKept(s) == rng

\* np.random.seed(seed)
SeedRng(s) == [seed |-> s, pos |-> 0]

\* Mutant of CanChoose: choice with replacement takes any p.
CanChooseAny(n, p) == TRUE

\* np.random.choice(np.arange(0, n), p, replace=False) takes p distinct indices
\* of n, and raises ValueError when p > n.
CanChoose(n, p) == p <= n

\* Variates one generation consumes: the permutation behind choice, the
\* positions and values of the two sparse matrices, q, u and l.
Draws(n, m) == n + n * n + n + m * n + m + m

\* Mutant of Advance: generation draws from a copy of the source.
AdvanceNone(r, n, m) == r

Advance(r, n, m) == [r EXCEPT !.pos = @ + Draws(n, m)]

\* The instance is determined by the source state it is drawn from and by
\* (n, m, p, density): P, q, A, l, u and the p restricted indices.
Generate(r, n, m, p, d) == [src |-> r, n |-> n, m |-> m, idx |-> p, dns |-> d]

\* ---------------------------------------------------------------- backends

Expected(s) == IF s = "gurobi" THEN "optimal" ELSE "MI_SOLVED"
Unexpected(s) == IF s = "gurobi" THEN "infeasible" ELSE "MI_MAX_ITER_UNSOLVED"

\* What a backend that is a function of the instance reports for it.
Replay(s, ins) ==
    LET k == IF (ins.src.pos + ins.src.seed + ins.n) % 2 = 0 THEN 1 ELSE 2
    IN  [status |-> IF ins.src.pos % 5 = 4 THEN Unexpected(s) ELSE Expected(s),
         time |-> CpuTimes[k],
         osqp |-> IF s = "miosqp" THEN OsqpTimes[k] ELSE Zero]

\* The results prob.solve / model.solve may return for an instance: solved
\* in either time, or given up on after the longer one.
BackendResults(s, ins) ==
    IF clock = "replay" THEN { Replay(s, ins) }
    ELSE { [status |-> Expected(s), time |-> CpuTimes[k],
            osqp |-> IF s = "miosqp" THEN OsqpTimes[k] ELSE Zero] : k \in 1..2 }
         \cup { [status |-> Unexpected(s), time |-> CpuTimes[2],
                 osqp |-> IF s = "miosqp" THEN OsqpTimes[2] ELSE Zero] }

\* A backend call leaves numpy's random source alone: the source belongs to
\* solve, which alone advances it.
AfterBackend(r) == r

\* Mutant of NeedsInspection: the status is not looked at.
NeverInspect(s, r) == FALSE

\* res.status != 'optimal' / res.status != miosqp.MI_SOLVED
NeedsInspection(s, r) == r.status # Expected(s)

\* 1e3 * res.cputime / 1e3 * res.run_time
SolveTime(r) == FMulInt(1000, r.time)
\* 100 * (res.osqp_solve_time / res.run_time)
OsqpShare(r) == FMulInt(100, FDiv(r.osqp, r.time))

\* ---------------------------------------------------------------- reducers

RECURSIVE SumFrom(_, _, _)
SumFrom(s, k, acc) == IF k > Len(s) THEN acc ELSE SumFrom(s, k + 1, FAdd(acc, s[k]))

\* np.mean: the sum of the elements, added in order (as numpy does for fewer
\* than eight of them) and rounded at every addition, divided by their
\* number; nan (with a warning) for an empty array.
Mean(s) == IF Len(s) = 0 THEN NaN ELSE FDivInt(SumFrom(s, 1, Zero), Len(s))

\* Mutant of Min: the first sample is taken for the least.
MinFirst(s) == s[1]

RECURSIVE MinFrom(_, _, _)
MinFrom(s, k, acc) ==
    IF k > Len(s) THEN acc
    ELSE MinFrom(s, k + 1, IF FLeq(s[k], acc) THEN s[k] ELSE acc)
\* np.min of a non-empty array
Min(s) == MinFrom(s, 2, s[1])

RECURSIVE MaxFrom(_, _, _)
MaxFrom(s, k, acc) ==
    IF k > Len(s) THEN acc
    ELSE MaxFrom(s, k + 1, IF FLeq(acc, s[k]) THEN s[k] ELSE acc)
\* np.max of a non-empty array
Max(s) == MaxFrom(s, 2, s[1])

\* np.max and np.min raise ValueError on an empty array.
ReductionFails(s) == Len(s) = 0


\* ------------------------------------------------------------------- solve

Init ==
    /\ \E sw \in Sweeps :
          /\ n_vec = [k \in DOMAIN sw |-> sw[k][1]]
          /\ m_vec = [k \in DOMAIN sw |-> sw[k][2]]
          /\ p_vec = [k \in DOMAIN sw |-> sw[k][3]]
    /\ repeat \in 0..MaxRepeat
    /\ dns_level \in Densities
    /\ seed \in Seeds
    /\ solver \in Solvers
    /\ n_prob \in {Undefined} \cup 0..MaxL
    /\ rng \in EarlierRng
    /\ clock \in {"wall", "replay"}
    /\ pc = "start" /\ err = "" /\ i = -1 /\ j = -1
    /\ solve_time_temp = <<>> /\ osqp_solve_time_temp = <<>>
    /\ min_solve_time = <<>> /\ max_solve_time = <<>> /\ avg_solve_time = <<>>
    /\ min_osqp_solve_time = <<>> /\ max_osqp_solve_time = <<>>
    /\ avg_osqp_solve_time = <<>>
    /\ inst = NoInst /\ res = NoRes
    /\ timings = <<>>
    /\ log = <<>>

\* An exception leaves solve: nothing catches it, no data frame is returned.
Unwind(kind, events) ==
    /\ pc' = "raised"
    /\ err' = kind
    /\ log' = log \o events \o << Ev("raise", i, j, <<kind>>) >>
    /\ timings' = timings

\* Lines 34-48: the statistics arrays, then np.random.seed(seed).
Enter ==
    /\ pc = "start"
    /\ avg_solve_time' = Zeros(L)
    /\ min_solve_time' = Zeros(L)
    /\ max_solve_time' = Zeros(L)
    /\ IF solver = "miosqp"
       THEN /\ avg_osqp_solve_time' = Zeros(L)
            /\ min_osqp_solve_time' = Zeros(L)
            /\ max_osqp_solve_time' = Zeros(L)
       ELSE UNCHANGED <<avg_osqp_solve_time, min_osqp_solve_time, max_osqp_solve_time>>
    /\ rng' = SeedRng(seed)
    /\ pc' = "for_i"
    /\ log' = Append(log, Ev("seed", -1, -1, <<seed>>))
    /\ UNCHANGED <<args, err, i, j, temps, inst, res, timings>>

\* Line 50: for i in range(n_prob) has another index to hand out.
MoreConfigs == n_prob # Undefined /\ i + 1 < n_prob

\* Lines 50-63: the next configuration, its dimensions and its sample arrays.
NextConfig ==
    /\ pc = "for_i"
    /\ MoreConfigs
    /\ i + 1 < L
    /\ i' = i + 1
    /\ j' = -1
    /\ solve_time_temp' = Zeros(repeat)
    /\ osqp_solve_time_temp' =
          IF solver = "miosqp" THEN Zeros(repeat) ELSE osqp_solve_time_temp
    /\ pc' = "for_j"
    /\ log' = Append(log, Ev("config", i + 1, -1, <<>>))
    /\ UNCHANGED <<args, rng, err, stats, inst, res, timings>>

\* Line 50 with n_prob unbound: NameError.
NoProblemCount ==
    /\ pc = "for_i"
    /\ n_prob = Undefined
    /\ Unwind("NameError", <<>>)
    /\ UNCHANGED <<args, rng, i, j, temps, stats, inst, res>>

\* Lines 53-55 with an index past the end of n_vec: IndexError.
PastTheSweep ==
    /\ pc = "for_i"
    /\ MoreConfigs
    /\ i + 1 >= L
    /\ i' = i + 1
    /\ Unwind("IndexError", <<>>)
    /\ UNCHANGED <<args, rng, j, temps, stats, inst, res>>

\* Mutant of MoreRepetitions: the loop stops one repetition early.
MoreRepetitionsShort == j + 2 < repeat

\* Line 65: for j in range(repeat) has another index to hand out.
MoreRepetitions == j + 1 < repeat

\* Lines 65-79: the next repetition draws its instance.  The previous result
\* is not read again.
NextRepetition ==
    /\ pc = "for_j"
    /\ MoreRepetitions
    /\ CanChoose(Idx(n_vec, i), Idx(p_vec, i))
    /\ j' = j + 1
    /\ inst' = Generate(rng, Idx(n_vec, i), Idx(m_vec, i), Idx(p_vec, i), dns_level)
    /\ rng' = Advance(rng, Idx(n_vec, i), Idx(m_vec, i))
    /\ res' = NoRes
    /\ pc' = "dispatch"
    /\ log' = Append(log, Ev("gen", i, j + 1, inst'))
    /\ UNCHANGED <<args, err, i, temps, stats, timings>>

\* Line 68 with p > n: np.random.choice raises ValueError.
CannotChoose ==
    /\ pc = "for_j"
    /\ MoreRepetitions
    /\ ~CanChoose(Idx(n_vec, i), Idx(p_vec, i))
    /\ j' = j + 1
    /\ Unwind("ValueError", <<>>)
    /\ UNCHANGED <<args, rng, i, temps, stats, inst, res>>

\* Lines 81-84, 89-115: the instance goes to the backend the tag names.
Dispatch ==
    /\ pc = "dispatch"
    /\ solver \in {"gurobi", "miosqp"}
    /\ pc' = "solving"
    /\ log' = Append(log, Ev("call", i, j, <<>>))
    /\ UNCHANGED <<args, rng, err, i, j, temps, stats, inst, res, timings>>

\* Lines 81, 89: neither branch is taken for any other tag.
NoBackend ==
    /\ pc = "dispatch"
    /\ solver \notin {"gurobi", "miosqp"}
    /\ pc' = "for_j"
    /\ log' = Append(log, Ev("skip", i, j, <<>>))
    /\ UNCHANGED <<args, rng, err, i, j, temps, stats, inst, res, timings>>

\* Lines 87, 120-121: the sample of repetition j.
Record(r, events) ==
    /\ res' = r
    /\ solve_time_temp' = [solve_time_temp EXCEPT ![j + 1] = SolveTime(r)]
    /\ osqp_solve_time_temp' =
          IF solver = "miosqp"
          THEN [osqp_solve_time_temp EXCEPT ![j + 1] = OsqpShare(r)]
          ELSE osqp_solve_time_temp
    /\ pc' = "for_j"
    /\ log' = log \o events \o << Ev("sample", i, j, <<>>) >>

\* Lines 84-87, 115-121: the backend returns the expected status.
BackendReturns ==
    /\ pc = "solving"
    /\ \E r \in BackendResults(solver, inst) :
          /\ ~NeedsInspection(solver, r)
          /\ Record(r, << Ev("ret", i, j, <<>>) >>)
    /\ rng' = AfterBackend(rng)
    /\ UNCHANGED <<args, err, i, j, stats, inst, timings>>

\* Lines 85-86, 117-118: any other status stops solve in the debugger.
Breakpoint ==
    /\ pc = "solving"
    /\ \E r \in BackendResults(solver, inst) :
          /\ NeedsInspection(solver, r)
          /\ res' = r
          /\ log' = Append(log, Ev("ret", i, j, <<>>))
    /\ pc' = "debug"
    /\ rng' = AfterBackend(rng)
    /\ UNCHANGED <<args, err, i, j, temps, stats, inst, timings>>

\* Lines 86, 118 where ipdb cannot be imported: ImportError.
NoDebugger ==
    /\ pc = "solving"
    /\ \E r \in BackendResults(solver, inst) :
          /\ NeedsInspection(solver, r)
          /\ res' = r
          /\ Unwind("ImportError", << Ev("ret", i, j, <<>>) >>)
    /\ rng' = AfterBackend(rng)
    /\ UNCHANGED <<args, i, j, temps, stats, inst>>

\* The operator continues from the breakpoint: lines 87, 120-121 run.
Resume ==
    /\ pc = "debug"
    /\ Record(res, <<>>)
    /\ UNCHANGED <<args, rng, err, i, j, stats, inst, timings>>

\* The operator quits the debugger: BdbQuit leaves solve.
Quit ==
    /\ pc = "debug"
    /\ Unwind("BdbQuit", <<>>)
    /\ UNCHANGED <<args, rng, i, j, temps, stats, inst, res>>

\* Mutant of BackendRaises: the failure is swallowed and the call issued again.
BackendRaisesRetried ==
    /\ pc = "solving"
    /\ pc' = "dispatch"
    /\ log' = Append(log, Ev("raise", i, j, <<"BackendError">>))
    /\ UNCHANGED <<args, rng, err, i, j, temps, stats, inst, res, timings>>

\* Lines 84, 112, 115: the backend raises.
BackendRaises ==
    /\ pc = "solving"
    /\ Unwind("BackendError", <<>>)
    /\ rng' = AfterBackend(rng)
    /\ UNCHANGED <<args, i, j, temps, stats, inst, res>>

\* Lines 125-132: the assignments to the statistics arrays at index i.
WriteStats(t, o) ==
    /\ avg_solve_time' = [avg_solve_time EXCEPT ![i + 1] = t[3]]
    /\ max_solve_time' = [max_solve_time EXCEPT ![i + 1] = t[2]]
    /\ min_solve_time' = [min_solve_time EXCEPT ![i + 1] = t[1]]
    /\ IF solver = "miosqp"
       THEN /\ avg_osqp_solve_time' = [avg_osqp_solve_time EXCEPT ![i + 1] = o[3]]
            /\ max_osqp_solve_time' = [max_osqp_solve_time EXCEPT ![i + 1] = o[2]]
            /\ min_osqp_solve_time' = [min_osqp_solve_time EXCEPT ![i + 1] = o[1]]
       ELSE UNCHANGED <<avg_osqp_solve_time, min_osqp_solve_time, max_osqp_solve_time>>
    /\ res' = NoRes
    /\ pc' = "for_i"
    /\ log' = Append(log, Ev("stats", i, -1, t))
    /\ UNCHANGED <<args, rng, err, i, j, temps, inst, timings>>

\* <<min, max, mean>> of a non-empty array
Reduce(s) == << Min(s), Max(s), Mean(s) >>

\* Mutant of Aggregate: an empty sample array reduces to zeros.
AggregateLenient ==
    /\ pc = "for_j"
    /\ ~MoreRepetitions
    /\ WriteStats(IF Len(solve_time_temp) = 0 THEN <<Zero, Zero, Zero>>
                  ELSE Reduce(solve_time_temp),
                  IF solver = "miosqp" /\ Len(osqp_solve_time_temp) > 0
                  THEN Reduce(osqp_solve_time_temp) ELSE <<Zero, Zero, Zero>>)

\* Lines 124-132: the statistics of configuration i.
Aggregate ==
    /\ pc = "for_j"
    /\ ~MoreRepetitions
    /\ ~ReductionFails(solve_time_temp)
    /\ WriteStats(Reduce(solve_time_temp),
                  IF solver = "miosqp" THEN Reduce(osqp_solve_time_temp) ELSE <<>>)

\* Lines 125-126 with repeat = 0: np.mean gives nan, np.max raises ValueError.
AggregateNothing ==
    /\ pc = "for_j"
    /\ ~MoreRepetitions
    /\ ReductionFails(solve_time_temp)
    /\ avg_solve_time' = [avg_solve_time EXCEPT ![i + 1] = Mean(solve_time_temp)]
    /\ Unwind("ValueError", <<>>)
    /\ UNCHANGED <<args, rng, i, j, temps, inst, res,
                   min_solve_time, max_solve_time,
                   avg_osqp_solve_time, min_osqp_solve_time, max_osqp_solve_time>>

\* One row of the data frame (lines 137-147).
Row(k) ==
    [n |-> n_vec[k], m |-> m_vec[k], p |-> p_vec[k],
     t_min |-> min_solve_time[k], t_max |-> max_solve_time[k],
     t_avg |-> avg_solve_time[k],
     t_osqp |-> IF solver = "miosqp"
                THEN << min_osqp_solve_time[k], max_osqp_solve_time[k],
                        avg_osqp_solve_time[k] >>
                ELSE <<>>]

\* Lines 50, 136-151: the loop is over and the data frame is returned.
Return ==
    /\ pc = "for_i"
    /\ n_prob # Undefined
    /\ ~MoreConfigs
    /\ timings' = [k \in 1..L |-> Row(k)]
    /\ pc' = "returned"
    /\ log' = Append(log, Ev("return", i, -1, <<>>))
    /\ UNCHANGED <<args, rng, err, i, j, temps, stats, inst, res>>

Next ==
    \/ Enter \/ NextConfig \/ NoProblemCount \/ PastTheSweep
    \/ NextRepetition \/ CannotChoose
    \/ Dispatch \/ NoBackend
    \/ BackendReturns \/ Breakpoint \/ NoDebugger \/ Resume \/ Quit \/ BackendRaises
    \/ Aggregate \/ AggregateNothing
    \/ Return

Spec == Init /\ [][Next]_vars


\* ------------------------------------------------------------ reading the log

At_(e) == { k \in DOMAIN log : log[k].ev = e }
Of(e, ii) == { k \in DOMAIN log : log[k].ev = e /\ log[k].i = ii }
Visited == { log[k].i : k \in At_("config") }
Fits(ii) == Idx(p_vec, ii) <= Idx(n_vec, ii)
KnownTag == solver = "gurobi" \/ solver = "miosqp"
Optimal(r) == r.status = "optimal" \/ r.status = "MI_SOLVED"

\* ---------------------------------------------------------------------- C1

\* C1: with a backend tag other than 'gurobi' and 'miosqp', solve fails before
\* any instance is generated and returns no data frame.
C1_UnknownTagFailsFast ==
    ~KnownTag => At_("gen") = {} /\ pc # "returned"

\* ---------------------------------------------------------------------- C2

\* C2 as stated: a result with another status than optimal is an ordinary
\* outcome; solve neither halts for an operator nor raises on it.
C2_OtherStatusIsOrdinary ==
    /\ pc # "debug"
    /\ err \notin {"ImportError", "BdbQuit"}

\* C2 amended: a result whose status is not the optimal one is never recorded
\* in the step that receives it: solve stops at the breakpoint with the sample
\* arrays untouched (or the import of ipdb raises), and the sample is written
\* only by the step that resumes from the breakpoint; a result with the
\* optimal status is recorded at once.
C2_OtherStatusStopsAtBreakpoint ==
    [][ /\ pc = "solving" /\ pc' = "for_j" => Optimal(res')
        /\ pc = "solving" /\ res' # NoRes /\ ~Optimal(res')
              => pc' \in {"debug", "raised"} /\ temps' = temps
        /\ pc = "debug"
              => /\ ~Optimal(res)
                 /\ pc' \in {"for_j", "raised"}
                 /\ pc' = "for_j" =>
                       /\ solve_time_temp'[j + 1] = FMulInt(1000, res.time)
                       /\ j' = j /\ i' = i
                 /\ pc' = "raised" => temps' = temps
      ]_vars

\* the operator has resumed from the breakpoint of a later repetition, and
\* the sample of the result that stopped solve is recorded
C2_Witness ==
    /\ pc = "for_j" /\ j >= 1
    /\ res # NoRes /\ ~Optimal(res)
    /\ solve_time_temp[j + 1] = FMulInt(1000, res.time)
    /\ log[Len(log)].ev = "sample"

\* ---------------------------------------------------------------------- C3

\* C3: when the backend raises at repetition j of configuration i, that is the
\* last thing solve does: no retry of the call, no further instance, no data
\* frame.
C3_BackendFailurePropagates ==
    LET calls == At_("call")
    IN  /\ \A k \in DOMAIN log :
              log[k].ev = "raise" =>
                 /\ k = Len(log)
                 /\ pc = "raised"
                 /\ log[k].val = <<"BackendError">> =>
                       /\ log[k - 1].ev = "call"
                       /\ log[k - 1].i = log[k].i /\ log[k - 1].j = log[k].j
        /\ Cardinality({ <<log[k].i, log[k].j>> : k \in calls }) = Cardinality(calls)
        /\ pc = "raised" =>
              /\ log[Len(log)].ev = "raise"
              /\ At_("return") = {}
              /\ timings = <<>>

\* the backend raised in a later repetition of the second configuration
C3_Witness ==
    /\ pc = "raised" /\ err = "BackendError"
    /\ i = 1 /\ j = 1

\* ---------------------------------------------------------------------- C4

\* C4: for a configuration with p > n nothing is generated, no backend is
\* called, no sample and no statistics are recorded, and a run that reached
\* such a configuration returns no data frame.
C4_TooManyRestrictedRejected ==
    /\ \A k \in DOMAIN log :
          log[k].ev \in {"gen", "call", "skip", "ret", "sample", "stats"} => Fits(log[k].i)
    /\ pc \in {"dispatch", "solving", "debug"} => Fits(i)
    /\ pc = "returned" => \A ii \in Visited : Fits(ii)
    /\ \A ii \in Visited :
          ~Fits(ii) /\ pc = "raised" => err = "ValueError" /\ i = ii

\* the second configuration of a sweep asked for p > n and was rejected after
\* the first one had been solved
C4_Witness ==
    /\ pc = "raised" /\ err = "ValueError"
    /\ repeat > 0 /\ i = 1 /\ ~Fits(1) /\ Fits(0)
    /\ Of("stats", 0) # {}

\* ---------------------------------------------------------------------- C5

\* C5: a returned data frame has one row per entry of n_vec, in order, row i
\* carrying (n_vec[i], m_vec[i], p_vec[i]), and the loop has visited every
\* index 0..L-1 exactly once and gathered `repeat` samples for it.
C5_EveryRowVisitedOnce ==
    pc = "returned" =>
        /\ Len(timings) = L
        /\ \A k \in 1..L :
              /\ timings[k].n = n_vec[k] /\ timings[k].m = m_vec[k]
              /\ timings[k].p = p_vec[k]
              /\ Cardinality(Of("config", k - 1)) = 1
              /\ Cardinality(Of("stats", k - 1)) = 1
              /\ Cardinality(Of("gen", k - 1)) = repeat

\* ---------------------------------------------------------------------- C6

\* C6: with repeat = 0 a configuration that is reached has no sample, and
\* solve then ends with an error: it writes no row of statistics and returns
\* no data frame.
C6_NoSampleNoReport ==
    repeat = 0 /\ Visited # {} =>
        /\ At_("stats") = {}
        /\ At_("return") = {}
        /\ pc \in {"for_j", "raised"}
        /\ pc = "raised" => err = "ValueError" /\ timings = <<>>

\* the reduction of an empty sample array raised
C6_Witness ==
    /\ repeat = 0 /\ pc = "raised" /\ err = "ValueError"
    /\ Visited = {0} /\ Fits(0)


\* ---------------------------------------------------------------------- C7

\* The source state a "gen" entry of the log started from.
Src(k) == log[k].val.src
\* The last entry of the log.
Last == log[Len(log)]
JustDone(e) == log # <<>> /\ Last.ev = e

\* C7: the random source is seeded once, before anything else; afterwards it
\* is moved by instance generation alone, forward and never back, so that an
\* instance, when it is generated, is drawn from a source state no earlier
\* (i, j) position of the run has drawn from.
C7_SeededOnceAdvancedOnly ==
    /\ pc = "start" => log = <<>>
    /\ pc # "start" => log[1].ev = "seed" /\ rng.seed = seed
    /\ \A k \in DOMAIN log : log[k].ev = "seed" => k = 1
    /\ JustDone("gen") =>
          LET earlier == { k \in DOMAIN log : log[k].ev = "gen" /\ k < Len(log) }
          IN  /\ \A k \in earlier :
                    /\ Src(k) # inst.src
                    /\ Src(k).seed = inst.src.seed
                    /\ Src(k).pos < inst.src.pos
                    /\ <<log[k].i, log[k].j>> # <<i, j>>
              /\ inst.src.seed = seed
              /\ earlier = {} => inst.src.pos = 0
              /\ Last.val = inst
              /\ rng = [seed |-> seed,
                        pos |-> inst.src.pos + Draws(Idx(n_vec, i), Idx(m_vec, i))]
    /\ pc \in {"solving", "debug"} \/ (pc = "for_j" /\ j >= 0) =>
          rng = [seed |-> seed,
                 pos |-> inst.src.pos + Draws(Idx(n_vec, i), Idx(m_vec, i))]
    /\ inst = NoInst /\ pc # "start" => rng = [seed |-> seed, pos |-> 0]

\* a run over two configurations with two repetitions each has returned
C7_Witness ==
    /\ pc = "returned"
    /\ Cardinality(Of("gen", 0)) >= 2 /\ Cardinality(Of("gen", 1)) >= 2
    /\ rng.pos > 0

\* ---------------------------------------------------------------------- C8

RECURSIVE DrawsBefore(_)
\* Variates consumed by the configurations before ii.
DrawsBefore(ii) ==
    IF ii <= 0 THEN 0
    ELSE DrawsBefore(ii - 1) + repeat * Draws(Idx(n_vec, ii - 1), Idx(m_vec, ii - 1))
\* The instance of position (ii, jj) as a function of the seed and the sweep.
InstanceAt(ii, jj) ==
    LET n == Idx(n_vec, ii)
        m == Idx(m_vec, ii)
    IN  [src |-> [seed |-> seed,
                  pos |-> DrawsBefore(ii) + jj * Draws(n, m)],
         n |-> n, m |-> m, idx |-> Idx(p_vec, ii), dns |-> dns_level]
\* The primary samples of configuration ii under a backend that is a function
\* of the instance.
ReplaySamples(ii) ==
    [jj \in 1..repeat |-> FMulInt(1000, Replay(solver, InstanceAt(ii, jj - 1)).time)]

\* C8: the instance generated at (i, j) is a function of the seed and the
\* sweep alone, whatever the backend tag and whatever state the random source
\* was left in before the call; with a backend whose result is a function of
\* the instance, so are the samples and the statistics of every
\* configuration.
C8_DeterminedBySeedAndSweep ==
    /\ JustDone("gen") => Last.val = InstanceAt(Last.i, Last.j)
    /\ pc \in {"dispatch", "solving", "debug"} => inst = InstanceAt(i, j)
    /\ clock = "replay" /\ KnownTag =>
          /\ pc = "for_j" =>
                LET S == ReplaySamples(i)
                IN  \A jj \in 1..(j + 1) : solve_time_temp[jj] = S[jj]
          /\ \A k \in DOMAIN log :
                log[k].ev = "stats" =>
                    LET ii == log[k].i
                        S == ReplaySamples(ii)
                        mn == min_solve_time[ii + 1]
                        mx == max_solve_time[ii + 1]
                    IN  /\ \E jj \in 1..repeat : S[jj] = mn
                        /\ \E jj \in 1..repeat : S[jj] = mx
                        /\ \A jj \in 1..repeat : FLeq(mn, S[jj]) /\ FLeq(S[jj], mx)
                        /\ avg_solve_time[ii + 1] = FDivInt(SumFrom(S, 1, Zero), repeat)

\* a replayed run over two configurations with several repetitions returned
C8_Witness ==
    /\ pc = "returned" /\ clock = "replay" /\ KnownTag
    /\ Cardinality(At_("stats")) = 2 /\ repeat >= 2
    /\ rng.seed = seed


\* ---------------------------------------------------------------------- C9

Between(lo, x, hi) == FLeq(lo, x) /\ FLeq(x, hi)

\* C9 as stated: in every row of a returned data frame min <= mean <= max, for
\* the times and, with miosqp, for the OSQP percentages.
C9_MinMeanMax ==
    pc = "returned" =>
        \A k \in 1..Len(timings) :
            /\ Between(timings[k].t_min, timings[k].t_avg, timings[k].t_max)
            /\ solver = "miosqp" =>
                  Between(timings[k].t_osqp[1], timings[k].t_osqp[3], timings[k].t_osqp[2])

\* The statistics of configuration i describe the sample array s: the minimum
\* and the maximum are elements of s that bound every element.
Bounds(s, mn, mx) ==
    /\ \E x \in 1..Len(s) : s[x] = mn
    /\ \E x \in 1..Len(s) : s[x] = mx
    /\ \A x \in 1..Len(s) : Between(mn, s[x], mx)

\* C9 amended: the statistics a configuration gets are the least and the
\* greatest of its `repeat` samples and their floating-point mean (the
\* running sum, rounded at every addition, divided by the count).  In every
\* row of a returned data frame min <= max; min <= mean <= max is guaranteed
\* for repeat <= 2 only, and with one sample min = max = mean = that sample.
\* From three samples on rounding can put the mean outside [min, max].
C9_MinMaxAndRoundedMean ==
    /\ pc = "for_i" /\ i >= 0 =>
          /\ Bounds(solve_time_temp, min_solve_time[i + 1], max_solve_time[i + 1])
          /\ solver = "miosqp" =>
                Bounds(osqp_solve_time_temp, min_osqp_solve_time[i + 1],
                       max_osqp_solve_time[i + 1])
          /\ repeat = 1 =>
                /\ avg_solve_time[i + 1] = solve_time_temp[1]
                /\ min_solve_time[i + 1] = solve_time_temp[1]
                /\ max_solve_time[i + 1] = solve_time_temp[1]
    /\ pc = "returned" =>
          \A k \in 1..Len(timings) :
              /\ FLeq(timings[k].t_min, timings[k].t_max)
              /\ solver = "miosqp" => FLeq(timings[k].t_osqp[1], timings[k].t_osqp[2])
              /\ repeat <= 2 =>
                    /\ Between(timings[k].t_min, timings[k].t_avg, timings[k].t_max)
                    /\ solver = "miosqp" =>
                          Between(timings[k].t_osqp[1], timings[k].t_osqp[3],
                                  timings[k].t_osqp[2])
              /\ repeat = 1 =>
                    /\ timings[k].t_min = timings[k].t_avg
                    /\ timings[k].t_avg = timings[k].t_max
                    /\ solver = "miosqp" =>
                          /\ timings[k].t_osqp[1] = timings[k].t_osqp[3]
                          /\ timings[k].t_osqp[3] = timings[k].t_osqp[2]

\* a returned miosqp data frame with two repetitions whose times differ
C9_Witness ==
    /\ pc = "returned" /\ solver = "miosqp" /\ repeat = 2
    /\ \E k \in 1..Len(timings) :
          /\ timings[k].t_min # timings[k].t_max
          /\ timings[k].t_osqp[1] # timings[k].t_osqp[2]

\* --------------------------------------------------------------------- C10

\* C10: one solve at a time, each returned before the next instance is drawn;
\* the statistics of configuration i are written once, after its `repeat`
\* repetitions and before any instance of a later configuration, and stay
\* as written.
C10_OneAtATimeStatsOnce ==
    /\ pc = "solving" <=> JustDone("call")
    /\ JustDone("call") =>
          LET g == log[Len(log) - 1]
          IN  g.ev = "gen" /\ g.i = Last.i /\ g.j = Last.j
    /\ JustDone("ret") \/ (JustDone("raise") /\ err = "BackendError") =>
          LET c == log[Len(log) - 1]
          IN  c.ev = "call" /\ c.i = Last.i /\ c.j = Last.j
    /\ JustDone("gen") =>
          /\ log[Len(log) - 1].ev \in {"config", "sample", "skip"}
          /\ \A k \in DOMAIN log : log[k].ev = "call" =>
                k + 1 < Len(log) /\ log[k + 1].ev = "ret"
          /\ \A ii \in 0..(i - 1) : \E h \in DOMAIN log :
                log[h].ev = "stats" /\ log[h].i = ii
    /\ JustDone("stats") =>
          LET ii == Last.i
              gens == Of("gen", ii)
              done == Of("sample", ii) \cup Of("skip", ii)
          IN  /\ Of("stats", ii) = {Len(log)}
              /\ Cardinality(gens) = repeat
              /\ \A jj \in 0..(repeat - 1) :
                    \E g \in gens :
                        /\ log[g].j = jj
                        /\ \E d \in done : log[d].j = jj /\ g < d
    /\ \A k \in DOMAIN log :
          log[k].ev = "stats" =>
              LET ii == log[k].i
              IN  /\ log[k].val = << min_solve_time[ii + 1], max_solve_time[ii + 1],
                                     avg_solve_time[ii + 1] >>
                  /\ pc = "returned" =>
                        log[k].val = << timings[ii + 1].t_min, timings[ii + 1].t_max,
                                        timings[ii + 1].t_avg >>
                  /\ \A h \in DOMAIN log :
                        h > k /\ log[h].ev \in {"gen", "stats"} => log[h].i > ii

\* two configurations of two repetitions each were aggregated with different
\* statistics and the data frame returned
C10_Witness ==
    /\ pc = "returned" /\ repeat >= 2
    /\ Cardinality(At_("stats")) = 2
    /\ timings[1].t_avg # timings[2].t_avg

====
